---- MODULE Spec2Model ----
(***************************************************************************)
(* Recallify backend: the document store behind the teaching assistant,    *)
(* the paragraph chunker of pdf_processor.py and the question generator of  *)
(* gemini_utils.py.                                                         *)
(*                                                                         *)
(* Two store implementations live in Backend/services:                     *)
(*   chroma_utils.py  - module-level functions over the in-memory          *)
(*                      collection "lecture_notes" (wired into main.py);    *)
(*   vector_store.py  - class VectorStore over the persistent collection   *)
(*                      "documents".                                        *)
(* A ChromaDB collection is modelled as the sequence of its records in      *)
(* insertion order.  Every handler is synchronous (no await inside), so     *)
(* each one is a single atomic action.                                      *)
(***************************************************************************)
EXTENDS Integers, Sequences, FiniteSets, TLC

VARIABLES
    backend,        \* which store implementation this process is wired to
    collection,     \* chroma_utils.collection ("lecture_notes")
    vs_collection,  \* VectorStore.collection ("documents")
    uuid_count,     \* number of uuid4() values drawn so far
    issued,         \* history: record ids assigned by earlier ingests
    temp_files,     \* the temp_<filename> files in the working directory
    last            \* history: the most recent call, its inputs and outcome

vars == <<backend, collection, vs_collection, uuid_count, issued, temp_files, last>>

(***************************************************************************)
(* Bounds of the model.                                                    *)
(***************************************************************************)
MaxChunks == 2      \* chunks per ingested document
MaxDocs == 2        \* uuid4() values available to store_document
MaxLimit == 3       \* the limit passed to get_notes
MaxTurns == 5       \* turns of a conversation history

\* Chunk texts: sequences of characters.
Texts == { <<"a">>, <<"b", " ", "c">> }

Filenames == { "notes.pdf" }

\* The chunk lists handed to an ingest: for each length 0..MaxChunks, two
\* documents whose chunks alternate between the two texts, so that documents
\* differ in length and in content.
SampleChunks(v, n) ==
    [i \in 1..n |-> IF (i + v) % 2 = 0 THEN <<"a">> ELSE <<"b", " ", "c">>]

ChunkLists == { SampleChunks(v, n) : v \in 0..1, n \in 0..MaxChunks }

Range(s) == { s[i] : i \in DOMAIN s }

(***************************************************************************)
(* The persistence substrate: a ChromaDB collection.                       *)
(***************************************************************************)
ColIds(coll) == { coll[i].id : i \in DOMAIN coll }

\* collection.delete(ids=...): removes the records with these ids; an id
\* that is not stored is ignored without error.
ColDelete(coll, ids) == SelectSeq(coll, LAMBDA r : r.id \notin ids)

\* collection.get(ids=...)
ColGetIds(coll, ids) == SelectSeq(coll, LAMBDA r : r.id \in ids)

\* collection.get(where={"document_id": d})
ColGetWhere(coll, d) == SelectSeq(coll, LAMBDA r : r.metadata.document_id = d)

\* The order in which the substrate hands back the records of a get():
\* insertion order rotated by k places and optionally reversed.
Arrange(s, k, rev) ==
    LET n == Len(s)
        rot == [i \in 1..n |-> s[((i - 1 + k) % n) + 1]]
    IN  IF n = 0 THEN s
        ELSE IF rev THEN [i \in 1..n |-> rot[n + 1 - i]] ELSE rot

Arrangements(s) ==
    { Arrange(s, k, rev) : k \in 0..(IF Len(s) = 0 THEN 0 ELSE Len(s) - 1), rev \in BOOLEAN }

(***************************************************************************)
(* embeddings.py                                                           *)
(***************************************************************************)
\* f"chunk_{i}"
ChunkId(i) == "chunk_" \o ToString(i)

\* embed_text: the vector the embedding service returns for a chunk.
EmbedText(chunk) == [values |-> chunk]

\* get_embeddings: one dict per chunk, in order; ids are chunk_0, chunk_1, ...
GetEmbeddings(chunked_text) ==
    [i \in 1..Len(chunked_text) |->
        [id |-> ChunkId(i - 1),
         text |-> chunked_text[i],
         embedding |-> EmbedText(chunked_text[i])]]

(***************************************************************************)
(* chroma_utils.py                                                         *)
(***************************************************************************)
\* clear_collection: deletes every stored id; a substrate failure is caught
\* and reported as False with the collection untouched.
ClearCollection(coll, clearFails) ==
    IF clearFails
    THEN [coll |-> coll, result |-> FALSE]
    ELSE [coll |-> IF ColIds(coll) # {} THEN ColDelete(coll, ColIds(coll)) ELSE coll,
          result |-> TRUE]

\* The record one collection.add call of add_to_db writes.
CuRecord(embedding_data) ==
    [id |-> embedding_data.id,
     document |-> embedding_data.text,
     embedding |-> embedding_data.embedding,
     metadata |-> [source |-> "lecture_pdf"]]

\* The for loop of add_to_db from item i on: one collection.add per item.
\* addFail = i makes the i-th add raise; an id already stored is either
\* skipped by the substrate or rejected with an error (dupRaises).
RECURSIVE AddLoop(_, _, _, _, _)
AddLoop(coll, embedding_list, i, addFail, dupRaises) ==
    IF i > Len(embedding_list) THEN [coll |-> coll, raised |-> FALSE]
    ELSE IF i = addFail THEN [coll |-> coll, raised |-> TRUE]
    ELSE IF embedding_list[i].id \in ColIds(coll)
    THEN IF dupRaises THEN [coll |-> coll, raised |-> TRUE]
         ELSE AddLoop(coll, embedding_list, i + 1, addFail, dupRaises)
    ELSE AddLoop(Append(coll, CuRecord(embedding_list[i])),
                 embedding_list, i + 1, addFail, dupRaises)

\* add_to_db(embedding_list, clear_first)
AddToDb(coll, embedding_list, clear_first, clearFails, addFail, dupRaises) ==
    LET start == IF clear_first THEN ClearCollection(coll, clearFails).coll ELSE coll
    IN  AddLoop(start, embedding_list, 1, addFail, dupRaises)

\* Python values a function can hand back, tagged with their type.
PyNone == [type |-> "NoneType"]
PyBool(b) == [type |-> "bool", value |-> b]
PyStr(x) == [type |-> "str", value |-> x]
PyDict(d) == [type |-> "dict", value |-> d]
PyList(s) == [type |-> "list", value |-> s]

PreviewLen == 100

\* doc[:100] + "..." if len(doc) > 100 else doc
ContentPreview(doc) ==
    IF Len(doc) > PreviewLen THEN SubSeq(doc, 1, PreviewLen) \o <<".", ".", ".">> ELSE doc

\* metadata.get(key, "unknown")
MetaGet(metadata, key) == IF key \in DOMAIN metadata THEN metadata[key] ELSE "unknown"

\* chroma_utils.get_all_documents: one summary per stored record, the record
\* id reported as its document_id.  got is the substrate's answer to get().
CuGetAllDocuments(got) ==
    PyList([i \in 1..Len(got) |->
        [document_id |-> got[i].id,
         filename |-> MetaGet(got[i].metadata, "filename"),
         source |-> MetaGet(got[i].metadata, "source"),
         content_preview |-> ContentPreview(got[i].document)]])

\* chroma_utils.get_document_chunks: the first record the substrate returns
\* for ids=[document_id], as a dict, or None when there is none.
CuGetDocumentChunks(coll, document_id) ==
    LET result == ColGetIds(coll, {document_id})
    IN  IF Len(result) > 0
        THEN PyDict([document_id |-> document_id,
                     content |-> result[1].document,
                     metadata |-> result[1].metadata])
        ELSE PyNone

\* chroma_utils.delete_document: True unless the substrate delete raises.
CuDeleteDocument(coll, document_id, deleteFails) ==
    IF deleteFails
    THEN [coll |-> coll, result |-> PyBool(FALSE)]
    ELSE [coll |-> ColDelete(coll, {document_id}), result |-> PyBool(TRUE)]

\* delimiter.join(parts)
RECURSIVE JoinWith(_, _)
JoinWith(parts, delimiter) ==
    IF Len(parts) = 0 THEN << >>
    ELSE IF Len(parts) = 1 THEN parts[1]
    ELSE parts[1] \o delimiter \o JoinWith(Tail(parts), delimiter)

Min(a, b) == IF a <= b THEN a ELSE b

\* collection.get(limit=limit): the first `limit` records of the substrate's
\* answer.
ColGetLimit(got, limit) == SubSeq(got, 1, Min(limit, Len(got)))

\* The separator of get_notes.
NotesDelimiter == << "\n", "\n" >>

\* A get_notes that joins every stored document (not the code's: line 94
\* passes the limit to the substrate).
GetNotesIgnoresLimit(got, limit) ==
    JoinWith([i \in 1..Len(got) |-> got[i].document], NotesDelimiter)

\* chroma_utils.get_notes: the documents of at most `limit` records, joined.
GetNotes(got, limit) ==
    LET initial_docs == ColGetLimit(got, limit)
        documents == [i \in 1..Len(initial_docs) |-> initial_docs[i].document]
    IN  JoinWith(documents, NotesDelimiter)

(***************************************************************************)
(* main.py: upload_pdf                                                     *)
(***************************************************************************)
NoFault == [stage |-> "none", at |-> 0]

\* A substrate call (get, add, delete) that raises.
SubstrateFault(call) == [stage |-> call, at |-> 0]

\* Where an upload can fail: text extraction, chunking, the embedding of the
\* k-th chunk, or the k-th collection.add.
UploadFaults(chunks) ==
    { NoFault, [stage |-> "extract", at |-> 0], [stage |-> "chunk", at |-> 0] }
    \cup { [stage |-> s, at |-> k] : s \in {"embed", "add"}, k \in 1..Len(chunks) }

\* The functions of the pipeline an upload gets to call, in order, before a
\* failure in the given stage stops it.
UploadCalls(stage) ==
    IF stage = "extract" THEN { "extract_text_from_pdf" }
    ELSE IF stage = "chunk" THEN { "extract_text_from_pdf", "chunk_text" }
    ELSE IF stage = "embed"
    THEN { "extract_text_from_pdf", "chunk_text", "get_embeddings" }
    ELSE { "extract_text_from_pdf", "chunk_text", "get_embeddings", "add_to_db" }

\* Variant of UploadPdfStore that resets the collection as soon as the upload
\* starts, before the chunks are embedded.
UploadPdfStoreClearsEarly(coll, chunks, fault, clearFails, dupRaises) ==
    LET start == ClearCollection(coll, clearFails).coll
    IN  IF fault.stage \in {"extract", "chunk", "embed"}
        THEN [coll |-> start, raised |-> TRUE, calls |-> UploadCalls(fault.stage)]
        ELSE LET added == AddLoop(start, GetEmbeddings(chunks), 1,
                                  IF fault.stage = "add" THEN fault.at ELSE 0, dupRaises)
             IN  [coll |-> added.coll, raised |-> added.raised,
                  calls |-> UploadCalls(fault.stage)]

\* What upload_pdf does to the collection: extract, chunk and embed first
\* (a failure there leaves the try block before add_to_db is called), then
\* add_to_db(embedded_chunks) with its default clear_first=True.
UploadPdfStore(coll, chunks, fault, clearFails, dupRaises) ==
    IF fault.stage \in {"extract", "chunk", "embed"}
    THEN [coll |-> coll, raised |-> TRUE, calls |-> UploadCalls(fault.stage)]
    ELSE LET added == AddToDb(coll, GetEmbeddings(chunks), TRUE, clearFails,
                              IF fault.stage = "add" THEN fault.at ELSE 0, dupRaises)
         IN  [coll |-> added.coll, raised |-> added.raised,
              calls |-> UploadCalls(fault.stage)]

\* The ids get_embeddings assigned before the upload stopped.
UploadAssignedIds(chunks, fault) ==
    IF fault.stage \in {"extract", "chunk"} THEN {}
    ELSE IF fault.stage = "embed" THEN { ChunkId(i - 1) : i \in 1..(fault.at - 1) }
    ELSE { ChunkId(i - 1) : i \in 1..Len(chunks) }

\* f"temp_{file.filename}"
TempPath(filename) == "temp_" \o filename

\* The temporary files after the handler: the upload is written to temp_path,
\* and os.remove(temp_path) runs once extract_text_from_pdf has returned.
UploadPdfTempFiles(files, filename, fault) ==
    LET written == files \cup { TempPath(filename) }
    IN  IF fault.stage = "extract" THEN written
        ELSE written \ { TempPath(filename) }

\* The handler's answer: the processed upload, or HTTP 500.
UploadPdfResponse(chunks, raised) ==
    IF raised THEN [status |-> 500, body |-> <<>>]
    ELSE [status |-> 200, body |-> GetEmbeddings(chunks)]

(***************************************************************************)
(* pdf_processor.py: SimpleTextSplitter and PDFProcessor.chunk_text        *)
(***************************************************************************)
\* The characters str.strip() and str.split() treat as blank.
Whitespace == { " ", "\n" }

\* str.strip(): the text without its leading and trailing blanks.
RECURSIVE LStrip(_)
LStrip(s) ==
    IF Len(s) = 0 THEN s
    ELSE IF Head(s) \in Whitespace THEN LStrip(Tail(s))
    ELSE s

RECURSIVE RStrip(_)
RStrip(s) ==
    IF Len(s) = 0 THEN s
    ELSE IF s[Len(s)] \in Whitespace THEN RStrip(SubSeq(s, 1, Len(s) - 1))
    ELSE s

Strip(s) == RStrip(LStrip(s))

\* The delimiter of text.split('\n\n').
ParagraphDelimiter == << "\n", "\n" >>

DelimiterAt(text, i) ==
    /\ i + 1 <= Len(text)
    /\ SubSeq(text, i, i + 1) = ParagraphDelimiter

\* text.split('\n\n'): the pieces between the delimiters found scanning from
\* the left; the empty text gives one empty piece.
RECURSIVE SplitParagraphs(_, _, _)
SplitParagraphs(text, i, piece) ==
    IF i > Len(text) THEN << piece >>
    ELSE IF DelimiterAt(text, i)
         THEN << piece >> \o SplitParagraphs(text, i + 2, << >>)
         ELSE SplitParagraphs(text, i + 1, Append(piece, text[i]))

Paragraphs(text) == SplitParagraphs(text, 1, << >>)

Max(a, b) == IF a >= b THEN a ELSE b

\* The loop of split_text over the paragraphs from the i-th on, and the flush
\* of the last chunk after it.
RECURSIVE SplitLoop(_, _, _, _, _, _)
SplitLoop(paragraphs, i, current_chunk, chunks, chunk_size, chunk_overlap) ==
    IF i > Len(paragraphs)
    THEN IF Len(current_chunk) > 0
         THEN Append(chunks, Strip(current_chunk))
         ELSE chunks
    ELSE LET paragraph == paragraphs[i]
             overlap_start == Max(0, Len(current_chunk) - chunk_overlap)
         IN  IF Len(current_chunk) + Len(paragraph) > chunk_size
             THEN IF Len(current_chunk) > 0
                  THEN SplitLoop(paragraphs, i + 1,
                                 SubSeq(current_chunk, overlap_start + 1,
                                        Len(current_chunk))
                                     \o ParagraphDelimiter \o paragraph,
                                 Append(chunks, Strip(current_chunk)),
                                 chunk_size, chunk_overlap)
                  ELSE SplitLoop(paragraphs, i + 1, paragraph, chunks,
                                 chunk_size, chunk_overlap)
             ELSE IF Len(current_chunk) > 0
                  THEN SplitLoop(paragraphs, i + 1,
                                 current_chunk \o ParagraphDelimiter \o paragraph,
                                 chunks, chunk_size, chunk_overlap)
                  ELSE SplitLoop(paragraphs, i + 1, paragraph, chunks,
                                 chunk_size, chunk_overlap)

\* A splitter that cuts every chunk longer than chunk_size down to chunk_size
\* (not the code's: split_text never cuts a paragraph).
SplitTextHardCut(text, chunk_size, chunk_overlap) ==
    LET chunks == SplitLoop(SplitParagraphs(text, 1, << >>), 1, << >>, << >>,
                            chunk_size, chunk_overlap)
    IN  [i \in 1..Len(chunks) |->
            IF Len(chunks[i]) > chunk_size
            THEN Strip(SubSeq(chunks[i], 1, chunk_size))
            ELSE chunks[i]]

\* A splitter that forgets the flush of the last chunk (not the code's:
\* lines 36-37 append it).
SplitTextNoFlush(text, chunk_size, chunk_overlap) ==
    LET chunks == SplitLoop(SplitParagraphs(text, 1, << >>), 1, << >>, << >>,
                            chunk_size, chunk_overlap)
    IN  SubSeq(chunks, 1, Len(chunks) - 1)

\* SimpleTextSplitter(chunk_size, chunk_overlap).split_text(text)
SplitText(text, chunk_size, chunk_overlap) ==
    SplitLoop(SplitParagraphs(text, 1, << >>), 1, << >>, << >>,
              chunk_size, chunk_overlap)

\* len(chunk.split()): the number of maximal runs of non-blank characters.
RECURSIVE CountWords(_, _, _)
CountWords(chunk, i, inWord) ==
    IF i > Len(chunk) THEN 0
    ELSE IF chunk[i] \in Whitespace THEN CountWords(chunk, i + 1, FALSE)
    ELSE (IF inWord THEN 0 ELSE 1) + CountWords(chunk, i + 1, TRUE)

WordCount(chunk) == CountWords(chunk, 1, FALSE)

ChunkObjects(chunks) ==
    [i \in 1..Len(chunks) |->
        [content |-> chunks[i],
         chunk_index |-> i - 1,
         character_count |-> Len(chunks[i]),
         word_count |-> WordCount(chunks[i])]]

\* PDFProcessor.chunk_text with the splitter the processor holds.
ChunkText(text, text_splitter) ==
    ChunkObjects(SplitText(text, text_splitter.chunk_size,
                           text_splitter.chunk_overlap))

(***************************************************************************)
(* vector_store.py: class VectorStore                                      *)
(***************************************************************************)
\* str(uuid.uuid4()): the k-th value drawn; no two draws give the same value.
Uuid(k) == "uuid" \o ToString(k)

\* f"{document_id}_chunk_{i}"
VsChunkId(document_id, i) == document_id \o "_chunk_" \o ToString(i)

\* The ids, documents and metadatas store_document prepares, one per chunk.
VsRecords(document_id, filename, chunks, now) ==
    [i \in 1..Len(chunks) |->
        [id |-> VsChunkId(document_id, i - 1),
         document |-> chunks[i].content,
         metadata |-> [document_id |-> document_id,
                       filename |-> filename,
                       chunk_index |-> i - 1,
                       character_count |-> chunks[i].character_count,
                       word_count |-> chunks[i].word_count,
                       upload_timestamp |-> now]]]

\* collection.add(documents=..., metadatas=..., ids=...) with whole lists:
\* one batch, written entirely or (empty lists, substrate failure) not at
\* all; ids already stored are skipped.
ColAddBatch(coll, records, addFails) ==
    IF Len(records) = 0 \/ addFails
    THEN [coll |-> coll, raised |-> TRUE]
    ELSE [coll |-> coll \o SelectSeq(records, LAMBDA r : r.id \notin ColIds(coll)),
          raised |-> FALSE]

\* VectorStore.store_document: returns the new document_id, or raises.
StoreDocument(coll, document_id, filename, chunks, now, addFails) ==
    LET added == ColAddBatch(coll, VsRecords(document_id, filename, chunks, now), addFails)
    IN  [coll |-> added.coll,
         raised |-> added.raised,
         result |-> IF added.raised THEN PyNone ELSE PyStr(document_id)]

\* VectorStore.get_all_documents.  The for loop only rebinds doc_id and
\* metadata; the grouping statements sit after the loop (one indentation
\* level out), so they run once, for the last record the substrate returned.
VsGetAllDocuments(got) ==
    IF Len(got) = 0 THEN PyList(<<>>)
    ELSE LET metadata == got[Len(got)].metadata
         IN  PyList(<< [document_id |-> metadata.document_id,
                        filename |-> metadata.filename,
                        upload_timestamp |-> metadata.upload_timestamp,
                        chunk_count |-> 0 + 1,
                        total_characters |-> 0 + metadata.character_count,
                        total_words |-> 0 + metadata.word_count] >>)

\* list.sort(key=chunk_index): a stable insertion of each element in turn.
RECURSIVE InsertByChunkIndex(_, _)
InsertByChunkIndex(sorted, x) ==
    IF Len(sorted) = 0 THEN <<x>>
    ELSE IF x.metadata.chunk_index < Head(sorted).metadata.chunk_index
    THEN <<x>> \o sorted
    ELSE <<Head(sorted)>> \o InsertByChunkIndex(Tail(sorted), x)

RECURSIVE SortByChunkIndex(_)
SortByChunkIndex(chunks) ==
    IF Len(chunks) = 0 THEN <<>>
    ELSE InsertByChunkIndex(SortByChunkIndex(SubSeq(chunks, 1, Len(chunks) - 1)),
                            chunks[Len(chunks)])

\* Variant of VectorStore.get_document_chunks without the final sort.
VsGetDocumentChunksUnsorted(got) ==
    PyList([i \in 1..Len(got) |->
               [content |-> got[i].document,
                metadata |-> got[i].metadata,
                id |-> got[i].id]])

\* VectorStore.get_document_chunks: got is the substrate's answer to
\* get(where={"document_id": document_id}), in the substrate's order.
VsGetDocumentChunks(got) ==
    PyList(SortByChunkIndex(
        [i \in 1..Len(got) |->
            [content |-> got[i].document,
             metadata |-> got[i].metadata,
             id |-> got[i].id]]))

\* Variant of VectorStore.delete_document whose lookup lost its where filter:
\* it deletes whatever get() returns.
VsDeleteDocumentUnfiltered(coll, document_id, substrateFails) ==
    LET ids == ColIds(coll)
    IN  IF substrateFails THEN [coll |-> coll, raised |-> TRUE, result |-> PyNone]
        ELSE IF ids # {}
        THEN [coll |-> ColDelete(coll, ids), raised |-> FALSE, result |-> PyBool(TRUE)]
        ELSE [coll |-> coll, raised |-> FALSE, result |-> PyBool(FALSE)]

\* VectorStore.delete_document: deletes the ids get(where=...) found and
\* returns True, returns False when it found none, raises on a substrate error.
VsDeleteDocument(coll, document_id, substrateFails) ==
    LET ids == ColIds(ColGetWhere(coll, document_id))
    IN  IF substrateFails THEN [coll |-> coll, raised |-> TRUE, result |-> PyNone]
        ELSE IF ids # {}
        THEN [coll |-> ColDelete(coll, ids), raised |-> FALSE, result |-> PyBool(TRUE)]
        ELSE [coll |-> coll, raised |-> FALSE, result |-> PyBool(FALSE)]

(***************************************************************************)
(* main.py: the document routes                                            *)
(***************************************************************************)
\* What a try block ends with: a returned value or a raised exception.
Returned(value) == [raised |-> FALSE, value |-> value]
Raised(exc) == [raised |-> TRUE, exc |-> exc]

\* An exception raised by a store call, and fastapi.HTTPException.
StoreError == [class |-> "Exception", status_code |-> 0, detail |-> "store error"]
HTTPException(status_code, detail) ==
    [class |-> "HTTPException", status_code |-> status_code, detail |-> detail]

\* The classes `except Exception` catches: Exception and its subclasses,
\* HTTPException among them.
IsException(exc) == exc.class \in { "Exception", "HTTPException" }

\* str(e) of a caught exception.
ExcStr(exc) ==
    IF exc.class = "HTTPException"
    THEN ToString(exc.status_code) \o ": " \o exc.detail
    ELSE exc.detail

\* bool(value) of a Python value.
Truthy(v) ==
    IF v.type = "NoneType" THEN FALSE
    ELSE IF v.type = "bool" THEN v.value
    ELSE IF v.type = "dict" THEN DOMAIN v.value # {}
    ELSE Len(v.value) > 0

\* `except Exception as e: raise HTTPException(status_code=500, ...)` around
\* a try block.
ExceptException(tried, prefix) ==
    IF tried.raised /\ IsException(tried.exc)
    THEN Raised(HTTPException(500, prefix \o ExcStr(tried.exc)))
    ELSE tried

\* The response FastAPI sends for what a route ended with.
Response(ended) ==
    IF ended.raised
    THEN [status |-> ended.exc.status_code, body |-> [detail |-> ended.exc.detail]]
    ELSE [status |-> 200, body |-> ended.value]

\* GET /api/documents/{document_id}/chunks
GetDocumentChunksRoute(coll, document_id, getFails) ==
    LET chunks == CuGetDocumentChunks(coll, document_id)
        tried == IF getFails THEN Raised(StoreError)
                 ELSE IF Truthy(chunks) THEN Returned(chunks)
                 ELSE Raised(HTTPException(404, "Document not found"))
    IN  ExceptException(tried, "Error fetching document chunks: ")

\* DELETE /api/documents/{document_id}.  delete_document catches the store's
\* exceptions itself, so the try block never sees one.
DeleteDocumentRoute(coll, document_id, deleteFails) ==
    LET done == CuDeleteDocument(coll, document_id, deleteFails)
        tried == IF Truthy(done.result)
                 THEN Returned(PyDict([success |-> TRUE,
                                       message |-> "Document deleted successfully"]))
                 ELSE Raised(HTTPException(404, "Document not found"))
    IN  [coll |-> done.coll,
         ended |-> ExceptException(tried, "Error deleting document: ")]

(***************************************************************************)
(* gemini_utils.py                                                         *)
(***************************************************************************)
\* get_notes(10)
NotesLimit == 10

\* conversation_history[-3:]
HistoryWindow == 3

\* The k-th turn of a conversation.
Turn(k) == [question |-> "q" \o ToString(k), answer |-> "a" \o ToString(k)]

\* conversation_history: None, or a list of turns, oldest first.
Histories ==
    { PyNone } \cup { PyList([k \in 1..n |-> Turn(k)]) : n \in 0..MaxTurns }

\* history[:window] (not the code's slice).
FirstTurns(history, window) == SubSeq(history, 1, Min(window, Len(history)))

\* history[-window:]
LastTurns(history, window) ==
    SubSeq(history, Max(0, Len(history) - window) + 1, Len(history))

\* f"Previous Q: {msg['question']}\nYour Answer: {msg['answer']}", a text
\* written as the sequence of its pieces.
RenderTurn(msg) ==
    << "Previous Q: ", msg.question, "\n", "Your Answer: ", msg.answer >>

\* conversation_context of generate_followup_question
FoldHistory(conversation_history) ==
    IF Truthy(conversation_history)
    THEN LET window == LastTurns(conversation_history.value, HistoryWindow)
         IN  JoinWith([i \in 1..Len(window) |-> RenderTurn(window[i])], << "\n" >>)
    ELSE << >>

\* The prompts: the fixed template and the values put into it.
InitialPrompt(training_data) ==
    [template |-> "initial", training_data |-> training_data]

FollowupPrompt(previous_question, user_answer, training_data, conversation_context) ==
    [template |-> "followup",
     previous_question |-> previous_question,
     user_answer |-> user_answer,
     training_data |-> training_data,
     conversation_context |-> conversation_context]

\* The generative service: what its successive invocations would answer.
Replies == { "Why?", " Why?\n" }
ServiceError == [class |-> "Exception", status_code |-> 0, detail |-> "service error"]
Outcomes == { [ok |-> TRUE, text |-> r] : r \in Replies } \cup { [ok |-> FALSE, text |-> ""] }
Services == { << first, second >> : first \in Outcomes, second \in Outcomes }

Request(prompt) == [model |-> "gemini-2.5-flash", contents |-> prompt]

Answer(outcome) ==
    IF outcome.ok THEN Returned(PyStr(outcome.text)) ELSE Raised(ServiceError)

\* A call of the service that is repeated once when it fails (not the code's).
GenerateContentWithRetry(prompt, service) ==
    IF service[1].ok
    THEN [requests |-> << Request(prompt) >>, ended |-> Answer(service[1])]
    ELSE [requests |-> << Request(prompt), Request(prompt) >>,
          ended |-> Answer(service[2])]

\* response = client.models.generate_content(...); return response.text
GenerateContent(prompt, service) ==
    [requests |-> << Request(prompt) >>, ended |-> Answer(service[1])]

\* What get_notes(10) ends with: the notes, or the exception of the store.
NotesOutcomes(coll) ==
    { Raised(StoreError) }
        \cup { Returned(GetNotes(got, NotesLimit)) : got \in Arrangements(coll) }

GenerateInitialQuestion(notes, service) ==
    IF notes.raised
    THEN [requests |-> << >>, ended |-> notes]
    ELSE GenerateContent(InitialPrompt(notes.value), service)

GenerateFollowupQuestion(user_answer, previous_question, history, notes, service) ==
    IF notes.raised
    THEN [requests |-> << >>, ended |-> notes]
    ELSE GenerateContent(FollowupPrompt(previous_question, user_answer, notes.value,
                                        FoldHistory(history)),
                         service)

(***************************************************************************)
(* The state machine                                                       *)
(***************************************************************************)
UnknownId == "doc-X"

CuDocumentIds == { ChunkId(i) : i \in 0..(MaxChunks - 1) } \cup { UnknownId }
VsDocumentIds == { Uuid(k) : k \in 1..MaxDocs } \cup { UnknownId }

\* The record kept of a call: its name and input, the injected fault, whether
\* it raised, what it returned, the collection before it, the record ids it
\* assigned (and which of them an earlier ingest had been given already),
\* and the functions of the pipeline it got to call.
Call(op, arg, fault, raised, result, pre, ids, calls) ==
    [op |-> op, arg |-> arg, fault |-> fault, raised |-> raised,
     result |-> result, pre |-> pre, ids |-> ids, reused |-> ids \cap issued,
     calls |-> calls]

Init ==
    /\ backend \in { "chroma_utils", "vector_store" }
    /\ collection = <<>>
    /\ vs_collection = <<>>
    /\ uuid_count = 0
    /\ issued = {}
    /\ temp_files = {}
    /\ last = [op |-> "init", arg |-> <<>>, fault |-> NoFault, raised |-> FALSE,
               result |-> PyNone, pre |-> <<>>, ids |-> {}, reused |-> {},
               calls |-> {}]

\* POST /api/upload-pdf
upload_pdf ==
    /\ backend = "chroma_utils"
    /\ \E filename \in Filenames, chunks \in ChunkLists, clearFails \in BOOLEAN :
         \E fault \in UploadFaults(chunks),
            dupRaises \in IF clearFails THEN BOOLEAN ELSE {FALSE} :
            LET done == UploadPdfStore(collection, chunks, fault, clearFails, dupRaises)
                ids == UploadAssignedIds(chunks, fault)
            IN  /\ collection' = done.coll
                /\ issued' = issued \cup ids
                /\ temp_files' = UploadPdfTempFiles(temp_files, filename, fault)
                /\ last' = Call("upload_pdf",
                                [filename |-> filename, chunks |-> chunks],
                                fault, done.raised,
                                UploadPdfResponse(chunks, done.raised), collection, ids,
                                done.calls)
    /\ UNCHANGED <<backend, vs_collection, uuid_count>>

cu_get_all_documents ==
    /\ backend = "chroma_utils"
    /\ \/ last' = Call("get_all_documents", <<>>, SubstrateFault("get"), TRUE,
                       PyNone, collection, {}, {})
       \/ \E got \in Arrangements(collection) :
            last' = Call("get_all_documents", <<>>, NoFault, FALSE,
                         CuGetAllDocuments(got), collection, {}, {})
    /\ UNCHANGED <<backend, collection, vs_collection, uuid_count, issued, temp_files>>

cu_get_document_chunks ==
    /\ backend = "chroma_utils"
    /\ \E document_id \in CuDocumentIds :
         \/ last' = Call("get_document_chunks", [document_id |-> document_id, got |-> <<>>],
                         SubstrateFault("get"), TRUE, PyNone, collection, {}, {})
         \/ last' = Call("get_document_chunks",
                         [document_id |-> document_id,
                          got |-> ColGetIds(collection, {document_id})],
                         NoFault, FALSE,
                         CuGetDocumentChunks(collection, document_id), collection, {}, {})
    /\ UNCHANGED <<backend, collection, vs_collection, uuid_count, issued, temp_files>>

cu_delete_document ==
    /\ backend = "chroma_utils"
    /\ \E document_id \in CuDocumentIds, deleteFails \in BOOLEAN :
         LET done == CuDeleteDocument(collection, document_id, deleteFails)
         IN  /\ collection' = done.coll
             /\ last' = Call("delete_document", document_id,
                             IF deleteFails THEN SubstrateFault("delete") ELSE NoFault,
                             FALSE, done.result, collection, {}, {})
    /\ UNCHANGED <<backend, vs_collection, uuid_count, issued, temp_files>>

cu_get_notes ==
    /\ backend = "chroma_utils"
    /\ \E limit \in 1..MaxLimit :
         \/ last' = Call("get_notes", [limit |-> limit, got |-> << >>],
                         SubstrateFault("get"), TRUE, PyNone, collection, {}, {})
         \/ \E got \in Arrangements(collection) :
              last' = Call("get_notes", [limit |-> limit, got |-> got],
                           NoFault, FALSE, PyStr(GetNotes(got, limit)),
                           collection, {}, {})
    /\ UNCHANGED <<backend, collection, vs_collection, uuid_count, issued, temp_files>>

get_document_chunks_route ==
    /\ backend = "chroma_utils"
    /\ \E document_id \in CuDocumentIds, getFails \in BOOLEAN :
         LET ended == GetDocumentChunksRoute(collection, document_id, getFails)
         IN  last' = Call("get_document_chunks_route", document_id,
                          IF getFails THEN SubstrateFault("get") ELSE NoFault,
                          ended.raised, Response(ended), collection, {}, {})
    /\ UNCHANGED <<backend, collection, vs_collection, uuid_count, issued, temp_files>>

delete_document_route ==
    /\ backend = "chroma_utils"
    /\ \E document_id \in CuDocumentIds, deleteFails \in BOOLEAN :
         LET done == DeleteDocumentRoute(collection, document_id, deleteFails)
         IN  /\ collection' = done.coll
             /\ last' = Call("delete_document_route", document_id,
                             IF deleteFails THEN SubstrateFault("delete") ELSE NoFault,
                             done.ended.raised, Response(done.ended), collection, {}, {})
    /\ UNCHANGED <<backend, vs_collection, uuid_count, issued, temp_files>>

vs_store_document ==
    /\ backend = "vector_store"
    /\ uuid_count < MaxDocs
    /\ \E filename \in Filenames, texts \in ChunkLists, addFails \in BOOLEAN :
         LET document_id == Uuid(uuid_count + 1)
             chunks == ChunkObjects(texts)
             done == StoreDocument(vs_collection, document_id, filename, chunks,
                                   uuid_count + 1, addFails)
             ids == { VsChunkId(document_id, i - 1) : i \in 1..Len(chunks) }
         IN  /\ vs_collection' = done.coll
             /\ uuid_count' = uuid_count + 1
             /\ issued' = issued \cup ids
             /\ last' = Call("store_document", [filename |-> filename, chunks |-> chunks],
                             IF addFails THEN SubstrateFault("add") ELSE NoFault,
                             done.raised, done.result, vs_collection, ids, {})
    /\ UNCHANGED <<backend, collection, temp_files>>

vs_get_all_documents ==
    /\ backend = "vector_store"
    /\ \/ last' = Call("get_all_documents", <<>>, SubstrateFault("get"), TRUE,
                       PyNone, vs_collection, {}, {})
       \/ \E got \in Arrangements(vs_collection) :
            last' = Call("get_all_documents", <<>>, NoFault, FALSE,
                         VsGetAllDocuments(got), vs_collection, {}, {})
    /\ UNCHANGED <<backend, collection, vs_collection, uuid_count, issued, temp_files>>

vs_get_document_chunks ==
    /\ backend = "vector_store"
    /\ \E document_id \in VsDocumentIds :
         \/ last' = Call("get_document_chunks", [document_id |-> document_id, got |-> <<>>],
                         SubstrateFault("get"), TRUE, PyNone, vs_collection, {}, {})
         \/ \E got \in Arrangements(ColGetWhere(vs_collection, document_id)) :
              last' = Call("get_document_chunks", [document_id |-> document_id, got |-> got],
                           NoFault, FALSE, VsGetDocumentChunks(got), vs_collection, {}, {})
    /\ UNCHANGED <<backend, collection, vs_collection, uuid_count, issued, temp_files>>

vs_delete_document ==
    /\ backend = "vector_store"
    /\ \E document_id \in VsDocumentIds, substrateFails \in BOOLEAN :
         LET done == VsDeleteDocument(vs_collection, document_id, substrateFails)
         IN  /\ vs_collection' = done.coll
             /\ last' = Call("delete_document", document_id,
                             IF substrateFails THEN SubstrateFault("delete") ELSE NoFault,
                             done.raised, done.result, vs_collection, {}, {})
    /\ UNCHANGED <<backend, collection, uuid_count, issued, temp_files>>

Next ==
    \/ upload_pdf
    \/ cu_get_all_documents
    \/ cu_get_document_chunks
    \/ cu_delete_document
    \/ cu_get_notes
    \/ get_document_chunks_route
    \/ delete_document_route
    \/ vs_store_document
    \/ vs_get_all_documents
    \/ vs_get_document_chunks
    \/ vs_delete_document

Spec == Init /\ [][Next]_vars

(***************************************************************************)
(* The chunker on its own: a splitter, a text, and the two operations of   *)
(* pdf_processor.py applied to it                                          *)
(***************************************************************************)
MaxTextLen == 7
MaxChunkSize == 3
MaxOverlap == 1

\* The characters of the texts: a letter, a blank, a line break.
Chars == { "a", " ", "\n" }

SplitTexts == UNION { [1..n -> Chars] : n \in 0..MaxTextLen }

TextSplitters ==
    [chunk_size : 1..MaxChunkSize, chunk_overlap : 0..MaxOverlap]

SplitCall(op, text_splitter, text, result) ==
    Call(op, [text_splitter |-> text_splitter, text |-> text],
         NoFault, FALSE, result, << >>, {}, {})

SplitInit ==
    /\ backend = "pdf_processor"
    /\ collection = << >>
    /\ vs_collection = << >>
    /\ uuid_count = 0
    /\ issued = {}
    /\ temp_files = {}
    /\ \E text_splitter \in TextSplitters, text \in SplitTexts :
         last = SplitCall("SimpleTextSplitter", text_splitter, text, PyNone)

split_text ==
    /\ backend = "pdf_processor"
    /\ LET text_splitter == last.arg.text_splitter
           text == last.arg.text
       IN  last' = SplitCall("split_text", text_splitter, text,
                             SplitText(text, text_splitter.chunk_size,
                                       text_splitter.chunk_overlap))
    /\ UNCHANGED <<backend, collection, vs_collection, uuid_count, issued, temp_files>>

chunk_text ==
    /\ backend = "pdf_processor"
    /\ LET text_splitter == last.arg.text_splitter
           text == last.arg.text
       IN  last' = SplitCall("chunk_text", text_splitter, text,
                             ChunkText(text, text_splitter))
    /\ UNCHANGED <<backend, collection, vs_collection, uuid_count, issued, temp_files>>

SplitNext ==
    \/ split_text
    \/ chunk_text

SplitSpec == SplitInit /\ [][SplitNext]_vars

(***************************************************************************)
(* The question generator on its own: a store as an upload left it, and    *)
(* the two operations of gemini_utils.py                                   *)
(***************************************************************************)
DialogueInit ==
    /\ backend = "gemini_utils"
    /\ \E chunks \in ChunkLists :
         collection = UploadPdfStore(<< >>, chunks, NoFault, FALSE, FALSE).coll
    /\ vs_collection = << >>
    /\ uuid_count = 0
    /\ issued = {}
    /\ temp_files = {}
    /\ last = [op |-> "init", arg |-> <<>>, fault |-> NoFault, raised |-> FALSE,
               result |-> PyNone, pre |-> <<>>, ids |-> {}, reused |-> {},
               calls |-> {}]

generate_initial_question ==
    /\ backend = "gemini_utils"
    /\ \E notes \in NotesOutcomes(collection), service \in Services :
         LET done == GenerateInitialQuestion(notes, service)
         IN  last' = Call("generate_initial_question", [service |-> service],
                          IF notes.raised THEN SubstrateFault("get") ELSE NoFault,
                          done.ended.raised, done.ended, collection, {},
                          done.requests)
    /\ UNCHANGED <<backend, collection, vs_collection, uuid_count, issued, temp_files>>

generate_followup_question ==
    /\ backend = "gemini_utils"
    /\ \E notes \in NotesOutcomes(collection), service \in Services,
          conversation_history \in Histories :
         LET done == GenerateFollowupQuestion("ua", "pq", conversation_history,
                                              notes, service)
         IN  last' = Call("generate_followup_question",
                          [service |-> service,
                           conversation_history |-> conversation_history],
                          IF notes.raised THEN SubstrateFault("get") ELSE NoFault,
                          done.ended.raised, done.ended, collection, {},
                          done.requests)
    /\ UNCHANGED <<backend, collection, vs_collection, uuid_count, issued, temp_files>>

DialogueNext ==
    \/ generate_initial_question
    \/ generate_followup_question

DialogueSpec == DialogueInit /\ [][DialogueNext]_vars

(***************************************************************************)
(* Properties                                                              *)
(***************************************************************************)
\* The collection of the store implementation in use.
Store == IF backend = "chroma_utils" THEN collection ELSE vs_collection

Ingests == { "upload_pdf", "store_document" }

\* The document a stored record is reported under: its document_id metadata
\* (VectorStore), or the record id itself (chroma_utils.get_all_documents).
DocumentIdOf(r) ==
    IF "document_id" \in DOMAIN r.metadata THEN r.metadata.document_id ELSE r.id

\* C1: ingest is additive - after an ingest that ran to its end (upload_pdf
\* through add_to_db with its defaults, or store_document), every record that
\* was stored before the ingest is still stored, unchanged.
C1_IngestIsAdditive ==
    (last.op \in Ingests /\ ~last.raised) =>
        \A r \in Range(last.pre) : r \in Range(Store)

\* C2: store writes are all-or-nothing - when a substrate write fails during
\* an ingest (the k-th collection.add of add_to_db, the batch add of
\* store_document), the store afterwards holds exactly the records it held
\* before the ingest began.
C2_FailedWriteLeavesStoreAsBefore ==
    (last.op \in Ingests /\ last.fault.stage = "add") =>
        /\ last.raised
        /\ Store = last.pre

\* C3: ingest atomicity under embedding failure - when embed_text raises for
\* the k-th chunk during upload_pdf, add_to_db is never reached, the store is
\* exactly as it was before the upload, and the upload reports failure.
C3_EmbeddingFailureWritesNothing ==
    (last.op = "upload_pdf" /\ last.fault.stage = "embed") =>
        /\ "add_to_db" \notin last.calls
        /\ collection = last.pre
        /\ last.raised
        /\ last.result.status = 500

\* An upload whose second chunk failed to embed, into a store that held
\* records of an earlier upload.
C3_Witness ==
    /\ last.op = "upload_pdf"
    /\ last.fault = [stage |-> "embed", at |-> 2]
    /\ Len(last.pre) > 0
    /\ collection = last.pre

\* The stored records reported under document d, in stored order.
RecordsOf(coll, d) == SelectSeq(coll, LAMBDA r : DocumentIdOf(r) = d)

\* The stored records of every document but d, in stored order.
RecordsNotOf(coll, d) == SelectSeq(coll, LAMBDA r : DocumentIdOf(r) # d)

RECURSIVE SumOver(_, _)
SumOver(records, field) ==
    IF Len(records) = 0 THEN 0
    ELSE Head(records).metadata[field] + SumOver(Tail(records), field)

\* C4: get_all_documents (VectorStore) returns exactly one entry per distinct
\* document_id in the store; the entry's chunk_count is the number of stored
\* records of that document and total_characters / total_words are the sums
\* of their character_count / word_count.
C4_GetAllDocumentsAggregates ==
    (backend = "vector_store" /\ last.op = "get_all_documents" /\ ~last.raised) =>
        LET entries == last.result.value
        IN  /\ { entries[i].document_id : i \in DOMAIN entries }
                  = { DocumentIdOf(r) : r \in Range(Store) }
            /\ \A i, j \in DOMAIN entries :
                  entries[i].document_id = entries[j].document_id => i = j
            /\ \A i \in DOMAIN entries :
                  LET records == RecordsOf(Store, entries[i].document_id)
                  IN  /\ entries[i].chunk_count = Len(records)
                      /\ entries[i].total_characters = SumOver(records, "character_count")
                      /\ entries[i].total_words = SumOver(records, "word_count")

\* What get_chunks(d) and get_all_documents() answer in the current state,
\* whatever order the substrate returns the records in.
ChunksAreEmpty(d) ==
    IF backend = "chroma_utils"
    THEN CuGetDocumentChunks(collection, d) = PyNone
    ELSE \A got \in Arrangements(ColGetWhere(vs_collection, d)) :
            Len(VsGetDocumentChunks(got).value) = 0

ListedDocumentIds ==
    IF backend = "chroma_utils"
    THEN UNION { { e.document_id : e \in Range(CuGetAllDocuments(got).value) } :
                 got \in Arrangements(collection) }
    ELSE UNION { { e.document_id : e \in Range(VsGetAllDocuments(got).value) } :
                 got \in Arrangements(vs_collection) }

\* C5: delete completeness - after delete_document(d) returns, no record with
\* document_id d remains in the store, get_chunks(d) is empty and d is absent
\* from get_all_documents().
C5_DeleteLeavesNoRecord ==
    (last.op = "delete_document" /\ ~last.raised) =>
        /\ \A r \in Range(Store) : DocumentIdOf(r) # last.arg
        /\ ChunksAreEmpty(last.arg)
        /\ last.arg \notin ListedDocumentIds

\* C6: delete_document(d) returns true exactly when at least one record of d
\* was stored before the call and has been removed; it returns false when no
\* record matched.
C6_DeleteReturnsWhetherRemoved ==
    (last.op = "delete_document" /\ ~last.raised) =>
        /\ last.result.type = "bool"
        /\ last.result.value <=>
              /\ \E r \in Range(last.pre) : DocumentIdOf(r) = last.arg
              /\ \A r \in Range(Store) : DocumentIdOf(r) # last.arg

\* C7: delete_document(d) changes only the records of d - the records of every
\* other document are the same before and after the call, nothing is added,
\* and when d has no record the whole store is unchanged.
C7_DeleteTouchesOnlyItsDocument ==
    (last.op = "delete_document") =>
        /\ RecordsNotOf(Store, last.arg) = RecordsNotOf(last.pre, last.arg)
        /\ Range(Store) \subseteq Range(last.pre)
        /\ (Len(RecordsOf(last.pre, last.arg)) = 0 => Store = last.pre)

\* A delete that removed a two-chunk document from a store that also held
\* another document.
C7_Witness ==
    /\ backend = "vector_store"
    /\ last.op = "delete_document"
    /\ last.result = PyBool(TRUE)
    /\ Len(RecordsOf(last.pre, last.arg)) = 2
    /\ Len(RecordsNotOf(last.pre, last.arg)) > 0
    /\ Len(Store) = Len(last.pre) - 2

\* C8: record identity - stored record ids are unique, no two stored records
\* share (document_id, chunk_index), and the ids an ingest assigns to its
\* chunks never coincide with ids assigned to an earlier ingested document.
C8_RecordIdentity ==
    /\ \A i, j \in DOMAIN Store : Store[i].id = Store[j].id => i = j
    /\ \A i, j \in DOMAIN Store :
          ( /\ "chunk_index" \in DOMAIN Store[i].metadata
            /\ "chunk_index" \in DOMAIN Store[j].metadata
            /\ Store[i].metadata.document_id = Store[j].metadata.document_id
            /\ Store[i].metadata.chunk_index = Store[j].metadata.chunk_index ) => i = j
    /\ (last.op \in Ingests => last.reused = {})

C10_UnknownIdGivesEmptySequence ==
    ( /\ last.op = "get_document_chunks"
      /\ last.fault = NoFault
      /\ Len(RecordsOf(last.pre, last.arg.document_id)) = 0 ) =>
        /\ ~last.raised
        /\ last.result.type = "list"
        /\ Len(last.result.value) = 0


DocumentRoutes == { "get_document_chunks_route", "delete_document_route" }

\* C11: the chunks route and the delete route answer a request for a document
\* that is not in the store with 404, and answer 500 only when the store
\* operation itself raised.
C11_UnknownDocumentGives404 ==
    (last.op \in DocumentRoutes) =>
        /\ (last.fault = NoFault /\ Len(RecordsOf(last.pre, last.arg)) = 0)
              => last.result.status = 404
        /\ last.result.status = 500 => last.fault # NoFault


\* The lines of a text written as a sequence of pieces: the pieces between
\* the line breaks.
RECURSIVE SplitLines(_, _, _)
SplitLines(text, i, line) ==
    IF i > Len(text) THEN << line >>
    ELSE IF text[i] = "\n" THEN << line >> \o SplitLines(text, i + 1, << >>)
    ELSE SplitLines(text, i + 1, Append(line, text[i]))

\* The turns of a conversation history, none when it is absent.
TurnsOf(conversation_history) ==
    IF conversation_history.type = "list" THEN conversation_history.value ELSE << >>

\* C15: the conversation context put into the follow-up prompt holds exactly
\* the last min(n, 3) of the n turns of the history, each as a question line
\* and an answer line, oldest first; it is empty for an empty or absent history.
C15_ContextIsLastThreeTurns ==
    (last.op = "generate_followup_question" /\ Len(last.calls) > 0) =>
        LET turns == TurnsOf(last.arg.conversation_history)
            n == Len(turns)
            k == IF n <= 3 THEN n ELSE 3
            context == last.calls[1].contents.conversation_context
            lines == SplitLines(context, 1, << >>)
        IN  /\ k = 0 => Len(context) = 0
            /\ k > 0 =>
                 /\ Len(lines) = 2 * k
                 /\ \A i \in 1..k :
                      /\ lines[2 * i - 1] = << "Previous Q: ", turns[n - k + i].question >>
                      /\ lines[2 * i] = << "Your Answer: ", turns[n - k + i].answer >>

\* A follow-up question asked with a history of more turns than the window.
C15_Witness ==
    /\ last.op = "generate_followup_question"
    /\ Len(last.calls) > 0
    /\ Len(TurnsOf(last.arg.conversation_history)) > 3

QuestionGenerators == { "generate_initial_question", "generate_followup_question" }

\* C17: a call of generate_initial_question or generate_followup_question
\* sends the generative service one request, never a second one, and ends
\* with what that request ended with: the text the service answered, as it
\* is, or the exception the service raised.  (When get_notes raises before
\* the service is reached, no request is sent and that exception leaves the
\* call.)
C17_ServiceInvokedOnce ==
    last.op \in QuestionGenerators =>
        LET first == last.arg.service[1]
        IN  /\ Len(last.calls) <= 1
            /\ last.fault = NoFault =>
                 /\ Len(last.calls) = 1
                 /\ first.ok => last.result = Returned(PyStr(first.text))
                 /\ ~first.ok => last.result = Raised(ServiceError)
            /\ last.fault # NoFault =>
                 /\ Len(last.calls) = 0
                 /\ last.result = Raised(StoreError)

\* A call whose request fails while a second request would have succeeded.
C17_Witness ==
    /\ last.op \in QuestionGenerators
    /\ Len(last.calls) = 1
    /\ ~last.arg.service[1].ok
    /\ last.arg.service[2].ok
    /\ last.raised

\* f maps different positions to different positions.
IsInjective(f) == \A i, j \in DOMAIN f : f[i] = f[j] => i = j

\* C16: get_notes(limit) returns the texts of min(limit, n) of the n stored
\* records, each record at most once, separated by a blank line; with no
\* stored record it returns the empty string.
C16_GetNotesJoinsAtMostLimit ==
    (last.op = "get_notes" /\ ~last.raised) =>
        LET n == Len(last.pre)
            k == IF last.arg.limit <= n THEN last.arg.limit ELSE n
            notes == last.result.value
        IN  /\ last.result.type = "str"
            /\ n = 0 => Len(notes) = 0
            /\ k > 0 =>
                 /\ Len(Paragraphs(notes)) = k
                 /\ \E f \in [1..k -> 1..n] :
                      /\ IsInjective(f)
                      /\ \A i \in 1..k : Paragraphs(notes)[i] = last.pre[f[i]].document

\* get_notes with a limit below the number of stored records.
C16_Witness ==
    /\ last.op = "get_notes"
    /\ ~last.raised
    /\ Len(last.pre) >= 2
    /\ last.arg.limit < Len(last.pre)

(***************************************************************************)
(* Properties of the chunker (under SplitSpec)                             *)
(***************************************************************************)
\* "\n\n".join(paragraphs[i..j])
RECURSIVE JoinParagraphs(_, _, _)
JoinParagraphs(paragraphs, i, j) ==
    IF i > j THEN << >>
    ELSE IF i = j THEN paragraphs[i]
    ELSE paragraphs[i] \o ParagraphDelimiter \o JoinParagraphs(paragraphs, i + 1, j)

\* The positions of the text each paragraph occupies.
RECURSIVE ParagraphSpans(_, _, _)
ParagraphSpans(text, i, first) ==
    IF i > Len(text) THEN << [first |-> first, last |-> Len(text)] >>
    ELSE IF DelimiterAt(text, i)
         THEN << [first |-> first, last |-> i - 1] >>
                  \o ParagraphSpans(text, i + 2, i + 2)
         ELSE ParagraphSpans(text, i + 1, first)

Spans(text) == Range(ParagraphSpans(text, 1, 1))

\* The chunk is made of whole paragraphs: it is paragraphs i..j of the text,
\* joined, without the blanks at its two ends.
OnParagraphBoundaries(chunk, text) ==
    \E i, j \in 1..Len(Paragraphs(text)) :
        i <= j /\ chunk = Strip(JoinParagraphs(Paragraphs(text), i, j))

\* The chunk is a run of the text that ends where a paragraph ends.
EndsOnParagraphEnd(chunk, text) ==
    \E span \in Spans(text) : \E s \in 1..(span.last + 1) :
        chunk = Strip(SubSeq(text, s, span.last))

\* The chunk is a run of the text that holds the paragraph from its first
\* character to its last and ends where a paragraph ends.
HoldsWhole(chunk, span, text) ==
    \E end \in Spans(text) : \E s \in 1..span.first :
        /\ end.last >= span.last
        /\ chunk = Strip(SubSeq(text, s, end.last))

\* C12 (as stated): every chunk of split_text begins and ends on a paragraph
\* boundary, so no paragraph is split across two chunks.
C12_ChunksOnParagraphBoundaries ==
    last.op = "split_text" =>
        \A i \in DOMAIN last.result : OnParagraphBoundaries(last.result[i], last.arg.text)

\* C12 (amended): every chunk of split_text is a run of the input that ends at
\* the end of a paragraph, and every paragraph that is not blank lies whole
\* inside one chunk, whatever its length; the first chunk, and every chunk when
\* chunk_overlap is 0, is made of whole paragraphs, while any other chunk may
\* begin inside a paragraph (with the overlap carried from the chunk before).
C12_ParagraphsStayWhole ==
    last.op = "split_text" =>
        LET text == last.arg.text
            chunks == last.result
        IN  /\ \A i \in DOMAIN chunks : EndsOnParagraphEnd(chunks[i], text)
            /\ \A i \in DOMAIN chunks :
                 (i = 1 \/ last.arg.text_splitter.chunk_overlap = 0)
                    => OnParagraphBoundaries(chunks[i], text)
            /\ \A span \in Spans(text) :
                 Len(Strip(SubSeq(text, span.first, span.last))) > 0
                    => \E i \in DOMAIN chunks : HoldsWhole(chunks[i], span, text)

\* A text with a paragraph longer than chunk_size, split into two chunks of
\* which one begins inside a paragraph.
C12_Witness ==
    /\ last.op = "split_text"
    /\ Len(last.result) >= 2
    /\ \E span \in Spans(last.arg.text) :
         span.last - span.first + 1 > last.arg.text_splitter.chunk_size
    /\ \E i \in DOMAIN last.result :
         ~ OnParagraphBoundaries(last.result[i], last.arg.text)


\* The characters of a text that are not blank, in order.
IsNonBlank(c) == c \notin Whitespace
NonBlank(s) == SelectSeq(s, IsNonBlank)

\* The k-th character of the text lies in a run of the text the chunk is made of.
CoveredBy(k, chunk, text) ==
    \E s \in 1..k, e \in k..Len(text) : chunk = Strip(SubSeq(text, s, e))

\* C13 (as stated): the chunks of split_text, concatenated in order with or
\* without the paragraph delimiter between them, are the input text again.
C13_ChunksReconstructText ==
    last.op = "split_text" =>
        \/ JoinWith(last.result, ParagraphDelimiter) = last.arg.text
        \/ JoinWith(last.result, << >>) = last.arg.text

\* C13 (amended): no character of the input other than whitespace is missing
\* from the chunks of split_text, and with chunk_overlap = 0 none is repeated:
\* the non-blank characters of the chunks in order are those of the input.
C13_NothingButWhitespaceLost ==
    last.op = "split_text" =>
        LET text == last.arg.text
            chunks == last.result
        IN  /\ \A k \in 1..Len(text) :
                 text[k] \notin Whitespace
                    => \E i \in DOMAIN chunks : CoveredBy(k, chunks[i], text)
            /\ last.arg.text_splitter.chunk_overlap = 0
                 => NonBlank(JoinWith(chunks, << >>)) = NonBlank(text)

\* A split into several chunks where the overlap repeats a character of the
\* input.
C13_Witness ==
    /\ last.op = "split_text"
    /\ Len(last.result) >= 2
    /\ last.arg.text_splitter.chunk_overlap > 0
    /\ Len(NonBlank(JoinWith(last.result, << >>))) > Len(NonBlank(last.arg.text))


\* The contents of the chunks a chunker call returned.
ChunkContents ==
    IF last.op = "chunk_text"
    THEN [i \in DOMAIN last.result |-> last.result[i].content]
    ELSE last.result

\* C14: every chunk of split_text and every chunk object of chunk_text has
\* non-empty content, and the empty text gives the empty sequence.
C14_ChunksAreNonEmpty ==
    last.op \in { "split_text", "chunk_text" } =>
        /\ \A i \in DOMAIN ChunkContents : Len(ChunkContents[i]) > 0
        /\ Len(last.arg.text) = 0 => Len(last.result) = 0


\* The chunk is one paragraph of the text, alone.
IsSingleParagraph(chunk, text) ==
    \E i \in 1..Len(Paragraphs(text)) : chunk = Strip(Paragraphs(text)[i])

\* C18: a chunk of split_text longer than chunk_size is a single paragraph
\* that is itself longer than chunk_size; every chunk built from more than one
\* paragraph, or from an overlap prefix and a paragraph, is at most chunk_size
\* long.
C18_OnlyLongParagraphExceedsBudget ==
    last.op = "split_text" =>
        \A i \in DOMAIN last.result :
            Len(last.result[i]) > last.arg.text_splitter.chunk_size
                => IsSingleParagraph(last.result[i], last.arg.text)


\* C19: when upload_pdf has ended, with its answer or with HTTP 500 after a
\* failure of extraction, chunking, embedding or storing, the file
\* temp_<filename> it wrote no longer exists.
C19_TempFileRemoved ==
    last.op = "upload_pdf" => TempPath(last.arg.filename) \notin temp_files

====
